---- MODULE Spec2Model ----
(***************************************************************************)
(* A model of main.py, the FastAPI service that classifies an uploaded     *)
(* scrap image with a ViT checkpoint.  The module-level statements         *)
(* (lines 12-29, 49) are the startup steps, the two route handlers         *)
(* (get_index, predict) are coroutines of one event loop, and              *)
(* predict_image is stepped line by line.                                  *)
(*                                                                         *)
(* A Python str is modelled as the sequence of its Unicode code points     *)
(* (so "E8" is <<69, 56>>), a dict literal as the sequence of its          *)
(* key/value pairs, and an index is 0-based as in the source.              *)
(***************************************************************************)
EXTENDS Integers, Sequences, FiniteSets, TLC

\* The number of requests the clients send in one run of the process.
MaxRequests == 3

\* Logits range over 0 .. MaxScore.
MaxScore == 2

\* ViTConfig.from_pretrained(model_name, num_labels=6, ...), line 18.
num_labels == 6

\* from_pretrained(..., ignore_mismatched_sizes=True, ...), line 19.
ignore_mismatched_sizes == TRUE

\* Mutant of class_names_literal: "E3" is written twice, "E2" is missing.
class_names_duplicate ==
    << <<69, 56>>,
       <<69, 51>>,
       <<69, 49>>,
       <<69, 51>>,
       <<69, 54>>,
       <<69, 72, 82, 66>> >>

\* class_names = ["E8", "E3", "E1", "E2", "E6", "EHRB"], line 21.
class_names_literal ==
    << <<69, 56>>,
       <<69, 51>>,
       <<69, 49>>,
       <<69, 50>>,
       <<69, 54>>,
       <<69, 72, 82, 66>> >>

\* class_meanings = { ... }, lines 22-29, in the order written.  8804 and 8805
\* are the code points of the less-or-equal and greater-or-equal signs.
class_meanings_literal ==
    <<
       \* "E1": "Old thin steel scrap (<=1.5x0.5x0.5 m, thickness <6 mm)"
       << <<69, 49>>,
          <<79, 108, 100, 32, 116, 104, 105, 110, 32, 115, 116, 101, 101, 108,
          32, 115, 99, 114, 97, 112, 32, 40, 8804, 49, 46, 53, 120, 48, 46, 53,
          120, 48, 46, 53, 32, 109, 44, 32, 116, 104, 105, 99, 107, 110, 101,
          115, 115, 32, 60, 54, 32, 109, 109, 41>> >>,
       \* "E2": "Thick new production steel scrap (<=1.5x0.5x0.5 m, thickness >=3 mm)"
       << <<69, 50>>,
          <<84, 104, 105, 99, 107, 32, 110, 101, 119, 32, 112, 114, 111, 100,
          117, 99, 116, 105, 111, 110, 32, 115, 116, 101, 101, 108, 32, 115, 99,
          114, 97, 112, 32, 40, 8804, 49, 46, 53, 120, 48, 46, 53, 120, 48, 46,
          53, 32, 109, 44, 32, 116, 104, 105, 99, 107, 110, 101, 115, 115, 32,
          8805, 51, 32, 109, 109, 41>> >>,
       \* "E3": "Old thick steel scrap (<=1.5x0.5x0.5 m, thickness >=6 mm)"
       << <<69, 51>>,
          <<79, 108, 100, 32, 116, 104, 105, 99, 107, 32, 115, 116, 101, 101,
          108, 32, 115, 99, 114, 97, 112, 32, 40, 8804, 49, 46, 53, 120, 48, 46,
          53, 120, 48, 46, 53, 32, 109, 44, 32, 116, 104, 105, 99, 107, 110, 101,
          115, 115, 32, 8805, 54, 32, 109, 109, 41>> >>,
       \* "E6": "Thin new production steel scrap, compressed or baled (thickness <3 mm)"
       << <<69, 54>>,
          <<84, 104, 105, 110, 32, 110, 101, 119, 32, 112, 114, 111, 100, 117,
          99, 116, 105, 111, 110, 32, 115, 116, 101, 101, 108, 32, 115, 99, 114,
          97, 112, 44, 32, 99, 111, 109, 112, 114, 101, 115, 115, 101, 100, 32,
          111, 114, 32, 98, 97, 108, 101, 100, 32, 40, 116, 104, 105, 99, 107,
          110, 101, 115, 115, 32, 60, 51, 32, 109, 109, 41>> >>,
       \* "E8": "Thin new production steel scrap (<=1.5x0.5x0.5 m, thickness <3 mm)"
       << <<69, 56>>,
          <<84, 104, 105, 110, 32, 110, 101, 119, 32, 112, 114, 111, 100, 117,
          99, 116, 105, 111, 110, 32, 115, 116, 101, 101, 108, 32, 115, 99, 114,
          97, 112, 32, 40, 8804, 49, 46, 53, 120, 48, 46, 53, 120, 48, 46, 53,
          32, 109, 44, 32, 116, 104, 105, 99, 107, 110, 101, 115, 115, 32, 60,
          51, 32, 109, 109, 41>> >>,
       \* "EHRB": "Old and new steel scrap, mainly rebars and merchant bars (max 1.5x0.5x0.5 m)"
       << <<69, 72, 82, 66>>,
          <<79, 108, 100, 32, 97, 110, 100, 32, 110, 101, 119, 32, 115, 116, 101,
          101, 108, 32, 115, 99, 114, 97, 112, 44, 32, 109, 97, 105, 110, 108,
          121, 32, 114, 101, 98, 97, 114, 115, 32, 97, 110, 100, 32, 109, 101,
          114, 99, 104, 97, 110, 116, 32, 98, 97, 114, 115, 32, 40, 109, 97, 120,
          32, 49, 46, 53, 120, 48, 46, 53, 120, 48, 46, 53, 32, 109, 41>> >>
    >>

\* "Scrap Category: "
CategoryPrefix ==
    <<83, 99, 114, 97, 112, 32, 67, 97, 116, 101, 103, 111, 114, 121, 58,
    32>>

\* "<br>Description: "
DescriptionInfix ==
    <<60, 98, 114, 62, 68, 101, 115, 99, 114, 105, 112, 116, 105, 111, 110,
    58, 32>>

-----------------------------------------------------------------------------
(* Python built-ins the program uses *)

\* The keys of a dict literal.
DictKeys(pairs) == {pairs[i][1] : i \in DOMAIN pairs}

\* A dict literal evaluates to the mapping of each key to the value of its
\* last pair.
DictOf(pairs) ==
    [k \in DictKeys(pairs) |->
        pairs[CHOOSE i \in DOMAIN pairs :
                /\ pairs[i][1] = k
                /\ \A j \in DOMAIN pairs : j > i => pairs[j][1] # k][2]]

\* Mutant of FormatResult: the description is interpolated twice and the code
\* not at all.
FormatResultNoCode(predicted_class, predicted_meaning) ==
    CategoryPrefix \o predicted_meaning \o DescriptionInfix \o predicted_meaning

\* The value of class_meanings.
class_meanings_dict == DictOf(class_meanings_literal)

\* The f-string of line 47.
FormatResult(predicted_class, predicted_meaning) ==
    CategoryPrefix \o predicted_class \o DescriptionInfix \o predicted_meaning

-----------------------------------------------------------------------------
(* The libraries, as far as the program depends on them *)

\* The uploads the clients choose from: bytes that are no image, a grey
\* one-pixel image and a one-pixel image with an alpha channel.
Uploads ==
    { [format |-> "none", mode |-> "none", data |-> <<104, 105>>],
      [format |-> "PNG",  mode |-> "L",    data |-> <<5>>],
      [format |-> "PNG",  mode |-> "RGBA", data |-> <<9, 0, 0, 7>>] }

\* A GET carries no file.
NoFile == [format |-> "none", mode |-> "none", data |-> <<>>]

\* Image.open(io.BytesIO(image)) raises UnidentifiedImageError for bytes of no
\* known image format.
Image_open_raises(bytes) == bytes.format = "none"

Image_open(bytes) == [mode |-> bytes.mode, data |-> bytes.data]

\* Image.convert('RGB'): grey is replicated to three channels, alpha is dropped.
convert_RGB(image) ==
    [mode |-> "RGB",
     data |-> CASE image.mode = "L"    -> <<image.data[1], image.data[1], image.data[1]>>
                [] image.mode = "RGBA" -> SubSeq(image.data, 1, 3)
                [] OTHER               -> image.data]

\* processor(images=image, return_tensors="pt"): one tensor, on the CPU.
processor_call(image) == [pixel_values |-> image.data, device |-> "cpu"]

\* The model inputs the uploads lead to.
Pixels ==
    {processor_call(convert_RGB(Image_open(u))).pixel_values :
        u \in {v \in Uploads : ~Image_open_raises(v)}}

\* The score vectors of a classifier with num_labels outputs.
ScoreVectors == [1..num_labels -> 0..MaxScore]

OneHot(i) == [j \in 1..num_labels |-> IF j = i THEN MaxScore ELSE 0]

\* A sample of score vectors: all labels tie, the last label wins.
SampleScores == {[j \in 1..num_labels |-> 0], OneHot(num_labels)}

\* A classifier is the function from its input to its logits; the sample has
\* the classifiers that score the two images differently.
SampleHeads ==
    {h \in [Pixels -> SampleScores] :
        \A p, q \in Pixels : p # q => h[p] # h[q]}

\* Classifiers that score every input alike, one for each score vector.
ScoreHeads == {[p \in Pixels |-> v] : v \in ScoreVectors}

NoHead == [p \in Pixels |-> <<>>]

\* The checkpoint on the hub as one run of the process finds it: the
\* from_pretrained call (if any) whose fetch fails, the number of labels of the
\* stored classifier head, and the head with num_labels outputs that loading
\* yields (the stored one, or a newly initialised one when the sizes differ).
Hubs(heads) ==
    [fetch_fails : {"never", "processor", "config", "model"},
     head_labels : {num_labels, 1000},
     head        : heads]

\* AutoModelForImageClassification.from_pretrained, line 19: a head of another
\* size raises unless ignore_mismatched_sizes is set.
ModelLoadRaises(h) ==
    \/ h.fetch_fails = "model"
    \/ h.head_labels # num_labels /\ ~ignore_mismatched_sizes

\* torch.device("cuda" if torch.cuda.is_available() else "cpu"), line 35.
torch_device(cuda_is_available) == IF cuda_is_available THEN "cuda" ELSE "cpu"

\* model(**inputs).logits, lines 40-41.
Forward(w, inputs) == w[inputs.pixel_values]

\* logits.argmax(-1).item(), line 43: a scan that keeps the first largest
\* element; the index is 0-based.
RECURSIVE ArgmaxScan(_, _, _)
ArgmaxScan(v, i, best) ==
    IF i > Len(v) THEN best
    ELSE ArgmaxScan(v, i + 1, IF v[i] > v[best] THEN i ELSE best)

\* Mutant of torch_argmax: the scan keeps the last largest element.
RECURSIVE ArgmaxScanLast(_, _, _)
ArgmaxScanLast(v, i, best) ==
    IF i > Len(v) THEN best
    ELSE ArgmaxScanLast(v, i + 1, IF v[i] >= v[best] THEN i ELSE best)

torch_argmax_last(v) == ArgmaxScanLast(v, 2, 1) - 1

torch_argmax(v) == ArgmaxScan(v, 2, 1) - 1

-----------------------------------------------------------------------------
(* The state *)

VARIABLES
    hub,             \* the checkpoint this run of the process finds
    cuda,            \* torch.cuda.is_available()
    main,            \* the module-level statement the process is at
    processor,       \* line 17: TRUE once the processor is loaded
    config,          \* line 18: config.num_labels, 0 before the config is loaded
    weights,         \* line 19: the loaded classifier
    model_device,    \* the device the parameters of model are on
    class_names,     \* line 21
    class_meanings,  \* lines 22-29
    toSend,          \* the requests the clients have yet to send
    request,         \* what each request carries: route and uploaded file
    pc,              \* the statement each handler is at
    frame,           \* the locals of each handler and of its predict_image call
    response,        \* the response each request got
    raised,          \* the exception that left each handler, "" if none
    calls,           \* how often predict_image was called for each request
    forwards,        \* how many forward passes ran for each request
    running          \* the handler the event loop is running, 0 if none

env     == <<hub, cuda>>
context == <<processor, config, weights, model_device, class_names, class_meanings>>
reqs    == <<toSend, request, pc, frame, response, raised, calls, forwards, running>>
vars    == <<hub, cuda, main, processor, config, weights, model_device,
             class_names, class_meanings, toSend, request, pc, frame, response,
             raised, calls, forwards, running>>

Reqs == 1..MaxRequests

NoImage  == [mode |-> "none", data |-> <<>>]
NoInputs == [pixel_values |-> <<>>, device |-> "none"]

\* The locals before their assignment.
EmptyFrame ==
    [contents |-> NoFile, image |-> NoImage, inputs |-> NoInputs,
     device |-> "none", logits |-> <<>>, predicted_class_idx |-> -1,
     predicted_class |-> <<>>, predicted_meaning |-> <<>>, result |-> <<>>]

NoResponse == [status |-> 0]

InitWith(heads, n) ==
    /\ hub \in Hubs(heads)
    /\ cuda \in BOOLEAN
    /\ main = "line17"
    /\ processor = FALSE
    /\ config = 0
    /\ weights = NoHead
    /\ model_device = "none"
    /\ class_names = <<>>
    /\ class_meanings = DictOf(<<>>)
    /\ toSend = n
    /\ request = [r \in Reqs |-> [route |-> "none", file |-> NoFile]]
    /\ pc = [r \in Reqs |-> "idle"]
    /\ frame = [r \in Reqs |-> EmptyFrame]
    /\ response = [r \in Reqs |-> NoResponse]
    /\ raised = [r \in Reqs |-> ""]
    /\ calls = [r \in Reqs |-> 0]
    /\ forwards = [r \in Reqs |-> 0]
    /\ running = 0

Init == InitWith(SampleHeads, MaxRequests)

\* One request, and a classifier for every score vector.
ScoreInit == InitWith(ScoreHeads, 1)

-----------------------------------------------------------------------------
(* Startup: the module-level statements and uvicorn.run *)

\* Mutant of OnStartupError: the exception is swallowed and the next statement
\* runs.
OnStartupErrorSwallowed(next) == next

\* No module-level statement is inside a try: an exception that leaves one ends
\* the process, and the statement after it (next) is never reached.
OnStartupError(next) == "aborted"

\* Line 17.
LoadProcessor ==
    /\ main = "line17"
    /\ IF hub.fetch_fails = "processor"
       THEN main' = OnStartupError("line18") /\ UNCHANGED processor
       ELSE main' = "line18" /\ processor' = TRUE
    /\ UNCHANGED <<env, config, weights, model_device, class_names,
                   class_meanings, reqs>>

\* Line 18.
LoadConfig ==
    /\ main = "line18"
    /\ IF hub.fetch_fails = "config"
       THEN main' = OnStartupError("line19") /\ UNCHANGED config
       ELSE main' = "line19" /\ config' = num_labels
    /\ UNCHANGED <<env, processor, weights, model_device, class_names,
                   class_meanings, reqs>>

\* Line 19.  The model is built from config, so it has config.num_labels
\* outputs; from_pretrained leaves it on the CPU.
LoadModel ==
    /\ main = "line19"
    /\ IF ModelLoadRaises(hub)
       THEN main' = OnStartupError("line21") /\ UNCHANGED <<weights, model_device>>
       ELSE /\ main' = "line21"
            /\ weights' = hub.head
            /\ model_device' = "cpu"
    /\ UNCHANGED <<env, processor, config, class_names, class_meanings, reqs>>

\* Lines 21-29.
DefineTables ==
    /\ main = "line21"
    /\ class_names' = class_names_literal
    /\ class_meanings' = class_meanings_dict
    /\ main' = "line62"
    /\ UNCHANGED <<env, processor, config, weights, model_device, reqs>>

\* Line 62: uvicorn.run(app, port=5050) starts to listen.
Listen ==
    /\ main = "line62"
    /\ main' = "serving"
    /\ UNCHANGED <<env, context, reqs>>

-----------------------------------------------------------------------------
(* The event loop and the two handlers *)

\* Mutant of AwaitLines: model.to(device) is awaited too.
AwaitLinesInPredictImage == {57, 36}

\* The source lines at which a handler awaits: `contents = await file.read()`.
AwaitLines == {57}

\* Who holds the event loop once handler r has executed `line`: r itself, or
\* nobody when the await of that line suspended r.
LoopAfter(r, line) == IF line \in AwaitLines THEN {0, r} ELSE {r}

\* The loop runs r's next statement when r holds the loop, or when the loop is
\* free and picks r.
CanRun(r) == running \in {0, r}

\* Mutant of file_read: the file is kept in one module-level variable that
\* every arriving request overwrites, so r reads the latest upload.
file_read_latest(r) ==
    LET posts == {q \in Reqs : request[q].route = "POST /predict"} IN
    request[CHOOSE q \in posts : \A o \in posts : o <= q].file

\* The bytes `file.read()` gives handler r: those of its own `file` parameter.
file_read(r) == request[r].file

\* Mutant of Raise: the handler catches the exception and returns a result
\* all the same.
RaiseCaught(r, exception) ==
    /\ raised' = raised
    /\ response' = [response EXCEPT
                      ![r] = [status |-> 200, json |-> [result |-> <<>>]]]
    /\ pc' = [pc EXCEPT ![r] = "done"]
    /\ frame' = [frame EXCEPT ![r] = EmptyFrame]
    /\ running' = 0

\* An exception leaves the handler: the client gets a 500, the handler is over
\* and its locals are gone.
Raise(r, exception) ==
    /\ raised' = [raised EXCEPT ![r] = exception]
    /\ response' = [response EXCEPT ![r] = [status |-> 500]]
    /\ pc' = [pc EXCEPT ![r] = "done"]
    /\ frame' = [frame EXCEPT ![r] = EmptyFrame]
    /\ running' = 0

\* The statement of `line` assigned `locals` and the handler goes on at `next`.
Goto(r, line, next, locals) ==
    /\ frame' = [frame EXCEPT ![r] = locals]
    /\ pc' = [pc EXCEPT ![r] = next]
    /\ running' \in LoopAfter(r, line)
    /\ UNCHANGED <<response, raised>>

\* A client sends a request to the listening server.  The server reads it and
\* schedules its handler on the event loop, so between two handler steps.
Arrive(route, file) ==
    /\ main = "serving"
    /\ running = 0
    /\ toSend > 0
    /\ LET r == MaxRequests - toSend + 1 IN
        /\ r \in Reqs
        /\ request' = [request EXCEPT ![r] = [route |-> route, file |-> file]]
        /\ pc' = [pc EXCEPT ![r] = IF route = "GET /" THEN "line53" ELSE "line57"]
    /\ toSend' = toSend - 1
    /\ UNCHANGED <<env, main, context, frame, response, raised, calls,
                   forwards, running>>

ArriveGet == Arrive("GET /", NoFile)

ArrivePost == \E file \in Uploads : Arrive("POST /predict", file)

\* Lines 51-53.
get_index(r) ==
    /\ pc[r] = "line53"
    /\ CanRun(r)
    /\ response' = [response EXCEPT ![r] = [status |-> 200, html |-> "index.html"]]
    /\ pc' = [pc EXCEPT ![r] = "done"]
    /\ running' = 0
    /\ UNCHANGED <<env, main, context, toSend, request, frame, raised, calls,
                   forwards>>

\* Line 57.
predict_read(r) ==
    /\ pc[r] = "line57"
    /\ CanRun(r)
    /\ Goto(r, 57, "line32", [frame[r] EXCEPT !.contents = file_read(r)])
    /\ UNCHANGED <<env, main, context, toSend, request, calls, forwards>>

\* Line 58 calls predict_image; line 32.
decode(r) ==
    /\ pc[r] = "line32"
    /\ CanRun(r)
    /\ calls' = [calls EXCEPT ![r] = @ + 1]
    /\ IF Image_open_raises(frame[r].contents)
       THEN Raise(r, "UnidentifiedImageError")
       ELSE Goto(r, 32, "line33",
                 [frame[r] EXCEPT
                    !.image = convert_RGB(Image_open(frame[r].contents))])
    /\ UNCHANGED <<env, main, context, toSend, request, forwards>>

\* Line 33.
preprocess(r) ==
    /\ pc[r] = "line33"
    /\ CanRun(r)
    /\ Goto(r, 33, "line35",
            [frame[r] EXCEPT !.inputs = processor_call(frame[r].image)])
    /\ UNCHANGED <<env, main, context, toSend, request, calls, forwards>>

\* Line 35.
select_device(r) ==
    /\ pc[r] = "line35"
    /\ CanRun(r)
    /\ Goto(r, 35, "line36", [frame[r] EXCEPT !.device = torch_device(cuda)])
    /\ UNCHANGED <<env, main, context, toSend, request, calls, forwards>>

\* Line 36: model.to(device) moves the parameters of the shared model.
model_to(r) ==
    /\ pc[r] = "line36"
    /\ CanRun(r)
    /\ model_device' = frame[r].device
    /\ Goto(r, 36, "line37", frame[r])
    /\ UNCHANGED <<env, main, processor, config, weights, class_names,
                   class_meanings, toSend, request, calls, forwards>>

\* Line 37.
inputs_to(r) ==
    /\ pc[r] = "line37"
    /\ CanRun(r)
    /\ Goto(r, 37, "line40",
            [frame[r] EXCEPT !.inputs.device = frame[r].device])
    /\ UNCHANGED <<env, main, context, toSend, request, calls, forwards>>

\* Mutant of WeightsAfterForward: the pass is followed by an update of the
\* parameters, which changes the scores.
WeightsUpdated(w) ==
    [p \in DOMAIN w |-> [j \in DOMAIN w[p] |-> w[p][Len(w[p]) + 1 - j]]]

\* Lines 39-41: the forward pass, without gradients: the parameters stay as
\* they are.  Parameters and inputs on different devices raise a RuntimeError.
WeightsAfterForward(w) == w

forward(r) ==
    /\ pc[r] = "line40"
    /\ CanRun(r)
    /\ IF model_device # frame[r].inputs.device
       THEN Raise(r, "RuntimeError") /\ UNCHANGED <<weights, forwards>>
       ELSE /\ Goto(r, 40, "line43",
                    [frame[r] EXCEPT !.logits = Forward(weights, frame[r].inputs)])
            /\ weights' = WeightsAfterForward(weights)
            /\ forwards' = [forwards EXCEPT ![r] = @ + 1]
    /\ UNCHANGED <<env, main, processor, config, model_device, class_names,
                   class_meanings, toSend, request, calls>>

\* Line 43.
argmax(r) ==
    /\ pc[r] = "line43"
    /\ CanRun(r)
    /\ Goto(r, 43, "line44",
            [frame[r] EXCEPT !.predicted_class_idx = torch_argmax(frame[r].logits)])
    /\ UNCHANGED <<env, main, context, toSend, request, calls, forwards>>

\* Line 44: a list index out of range raises IndexError.
lookup_class(r) ==
    /\ pc[r] = "line44"
    /\ CanRun(r)
    /\ LET i == frame[r].predicted_class_idx IN
        IF i + 1 \notin DOMAIN class_names
        THEN Raise(r, "IndexError")
        ELSE Goto(r, 44, "line45",
                  [frame[r] EXCEPT !.predicted_class = class_names[i + 1]])
    /\ UNCHANGED <<env, main, context, toSend, request, calls, forwards>>

\* Line 45: a missing key raises KeyError.
lookup_meaning(r) ==
    /\ pc[r] = "line45"
    /\ CanRun(r)
    /\ LET k == frame[r].predicted_class IN
        IF k \notin DOMAIN class_meanings
        THEN Raise(r, "KeyError")
        ELSE Goto(r, 45, "line47",
                  [frame[r] EXCEPT !.predicted_meaning = class_meanings[k]])
    /\ UNCHANGED <<env, main, context, toSend, request, calls, forwards>>

\* Line 47, and the assignment of line 58.
format(r) ==
    /\ pc[r] = "line47"
    /\ CanRun(r)
    /\ Goto(r, 47, "line59",
            [frame[r] EXCEPT
               !.result = FormatResult(frame[r].predicted_class,
                                       frame[r].predicted_meaning)])
    /\ UNCHANGED <<env, main, context, toSend, request, calls, forwards>>

\* Mutant of JsonBody: the string is returned under another key.
JsonBodyOtherKey(result) == [prediction |-> result]

\* return {"result": result}, line 59.
JsonBody(result) == [result |-> result]

\* Line 59: FastAPI serialises the returned dict as the JSON body.
respond(r) ==
    /\ pc[r] = "line59"
    /\ CanRun(r)
    /\ response' = [response EXCEPT
                      ![r] = [status |-> 200, json |-> JsonBody(frame[r].result)]]
    /\ pc' = [pc EXCEPT ![r] = "done"]
    /\ frame' = [frame EXCEPT ![r] = EmptyFrame]
    /\ running' = 0
    /\ UNCHANGED <<env, main, context, toSend, request, raised, calls, forwards>>

-----------------------------------------------------------------------------

Next ==
    \/ LoadProcessor
    \/ LoadConfig
    \/ LoadModel
    \/ DefineTables
    \/ Listen
    \/ ArriveGet
    \/ ArrivePost
    \/ \E r \in Reqs :
        \/ get_index(r)
        \/ predict_read(r)
        \/ decode(r)
        \/ preprocess(r)
        \/ select_device(r)
        \/ model_to(r)
        \/ inputs_to(r)
        \/ forward(r)
        \/ argmax(r)
        \/ lookup_class(r)
        \/ lookup_meaning(r)
        \/ format(r)
        \/ respond(r)

Spec == Init /\ [][Next]_vars

ScoreSpec == ScoreInit /\ [][Next]_vars

-----------------------------------------------------------------------------
(* Vocabulary of the properties *)

Posts == {r \in Reqs : request[r].route = "POST /predict"}

\* The POST requests whose file decodes as an image, and those whose file does not.
Decodable   == {r \in Posts : ~Image_open_raises(request[r].file)}
Undecodable == {r \in Posts : Image_open_raises(request[r].file)}

Answered(r) == pc[r] = "done"

\* The statements of predict_image after its first, and the statement that
\* follows its return.
InPredictImage ==
    {"line33", "line35", "line36", "line37", "line40", "line43", "line44",
     "line45", "line47"}
AfterArgmax == {"line44", "line45", "line47", "line59"}

Range(s) == {s[i] : i \in DOMAIN s}

Contains(s, sub) ==
    \E i \in 1..(Len(s) - Len(sub) + 1) : SubSeq(s, i, i + Len(sub) - 1) = sub

\* s.split("\n")
RECURSIVE SplitLines(_)
SplitLines(s) ==
    IF 10 \notin Range(s) THEN <<s>>
    ELSE LET i == CHOOSE k \in DOMAIN s : s[k] = 10 /\ \A j \in 1..(k - 1) : s[j] # 10
         IN  <<SubSeq(s, 1, i - 1)>> \o SplitLines(SubSeq(s, i + 1, Len(s)))

\* "<br>"
BrTag == <<60, 98, 114, 62>>

\* "Description: "
DescriptionPrefix ==
    <<68, 101, 115, 99, 114, 105, 112, 116, 105, 111, 110, 58, 32>>

\* A classifier with num_labels outputs.
Classifiers == [Pixels -> ScoreVectors]

\* The number of entries the dict literal of lines 22-29 has for each of its
\* keys.
EntriesOf ==
    [k \in DictKeys(class_meanings_literal) |->
        Cardinality({i \in DOMAIN class_meanings_literal :
                        class_meanings_literal[i][1] = k})]

TablesDefined == main \in {"line62", "serving"}

\* What predict_image gives for `bytes` alone, under the loaded weights and
\* tables: the response of a handler that runs with no other request around.
PredictAlone(bytes) ==
    IF Image_open_raises(bytes) THEN [status |-> 500]
    ELSE LET inputs == processor_call(convert_RGB(Image_open(bytes)))
             code   == class_names[torch_argmax(Forward(weights, inputs)) + 1]
         IN  [status |-> 200,
              json |-> [result |-> FormatResult(code, class_meanings[code])]]

-----------------------------------------------------------------------------
(* The properties *)

\* C1: for an upload that decodes and any score vector, predict_image returns
\* a string that contains exactly one of the six codes, class_names[i] for the
\* selected index i, and the description class_meanings[class_names[i]]; the
\* lookups of code and description never fail.
C1_ResultNamesOneCode ==
    \A r \in Reqs :
        /\ raised[r] \notin {"IndexError", "KeyError"}
        /\ pc[r] = "line59" =>
             LET s    == frame[r].result
                 i    == frame[r].predicted_class_idx
                 code == class_names[i + 1]
             IN  /\ i \in 0..(Len(class_names) - 1)
                 /\ {c \in Range(class_names) : Contains(s, c)} = {code}
                 /\ code \in DOMAIN class_meanings
                 /\ Contains(s, class_meanings[code])
        /\ (r \in Decodable /\ Answered(r)) =>
             /\ response[r].status = 200
             /\ Cardinality({c \in Range(class_names) :
                              Contains(response[r].json.result, c)}) = 1

\* A call returned for the last index of the Label Table.
C1_Witness ==
    \E r \in Decodable :
        /\ pc[r] = "line59"
        /\ frame[r].predicted_class_idx = num_labels - 1
        /\ Contains(frame[r].result, class_names[num_labels])

\* C2 as amended: the response to a POST /predict whose file decodes is the
\* JSON object with the single key `result`, and its value is the one-line
\* string "Scrap Category: <code><br>Description: <text>", <text> being the
\* description of <code>.
C2_ResultIsOneLineWithBr ==
    \A r \in Decodable :
        Answered(r) =>
            /\ response[r].status = 200
            /\ DOMAIN response[r].json = {"result"}
            /\ LET s == response[r].json.result IN
                /\ Len(SplitLines(s)) = 1
                /\ \E code \in Range(class_names) :
                     s = CategoryPrefix \o code \o BrTag \o DescriptionPrefix
                           \o class_meanings[code]

C2_Witness ==
    \E r \in Decodable :
        /\ Answered(r)
        /\ Contains(response[r].json.result, BrTag)

\* C2 as claimed: the value of `result` is a two-line string, first line
\* "Scrap Category: <code>", second line "Description: <text>".
C2_ResultIsTwoLines ==
    \A r \in Decodable :
        Answered(r) =>
            /\ DOMAIN response[r].json = {"result"}
            /\ \E code \in Range(class_names) :
                 SplitLines(response[r].json.result) =
                    << CategoryPrefix \o code,
                       DescriptionPrefix \o class_meanings[code] >>

\* C3: an upload that does not decode fails at the decode step: no forward
\* pass, no prediction string, no `result` in the response, no second call of
\* predict_image, and the server goes on serving with the event loop free for
\* the other handlers.
C3_UndecodableFailsAtDecode ==
    \A r \in Undecodable :
        /\ calls[r] <= 1
        /\ forwards[r] = 0
        /\ frame[r].result = <<>>
        /\ pc[r] \in {"line57", "line32", "done"}
        /\ Answered(r) =>
             /\ raised[r] = "UnidentifiedImageError"
             /\ calls[r] = 1
             /\ response[r].status = 500
             /\ "json" \notin DOMAIN response[r]
             /\ main = "serving"
             /\ running # r

\* After a failed request, a later request got its prediction.
C3_Witness ==
    \E r \in Undecodable : \E q \in Decodable :
        /\ r < q
        /\ Answered(r)
        /\ Answered(q)
        /\ response[q].status = 200

\* C4: the selected index holds the maximum of the six scores and is the lowest
\* index that does; the returned code is the Label Table entry at that index.
C4_ArgmaxIsFirstMaximum ==
    \A r \in Reqs :
        pc[r] \in AfterArgmax =>
            LET v == frame[r].logits
                i == frame[r].predicted_class_idx + 1
            IN  /\ Len(v) = Len(class_names)
                /\ i \in DOMAIN v
                /\ \A j \in DOMAIN v : v[j] <= v[i]
                /\ \A j \in 1..(i - 1) : v[j] < v[i]
                /\ pc[r] \in {"line45", "line47", "line59"} =>
                     frame[r].predicted_class = class_names[i]
                /\ pc[r] = "line59" =>
                     Contains(frame[r].result, CategoryPrefix \o class_names[i] \o BrTag)

\* Several indices hold the maximum, the first one does not, and a code was
\* returned.
C4_Witness ==
    \E r \in Reqs :
        /\ pc[r] = "line59"
        /\ LET v == frame[r].logits IN
            /\ Cardinality({j \in DOMAIN v : v[j] = MaxScore}) >= 2
            /\ v[1] < MaxScore
            /\ v[num_labels] = MaxScore

\* C5: two answered calls of predict with the same bytes gave the same
\* response, whatever was served before or between them.
C5_SameBytesSameResponse ==
    \A r, q \in Reqs :
        (/\ r < q
         /\ Answered(r) /\ Answered(q)
         /\ request[r].route = "POST /predict"
         /\ request[q].route = "POST /predict"
         /\ request[r].file = request[q].file)
            => response[r] = response[q]

\* Two answered calls with the same image, and between them an answered call
\* with another image that got another prediction.
C5_Witness ==
    \E r, o, q \in Decodable :
        /\ r < o /\ o < q
        /\ Answered(r) /\ Answered(o) /\ Answered(q)
        /\ request[r].file = request[q].file
        /\ request[o].file # request[r].file
        /\ response[o] # response[r]

\* C6: once the tables are defined, the Label Table has six pairwise distinct
\* codes, each has exactly one entry in the Description Table, that entry is a
\* non-empty string, and the Description Table has no other entry.
C6_TablesAgree ==
    TablesDefined =>
        /\ Len(class_names) = 6
        /\ Cardinality(Range(class_names)) = 6
        /\ DOMAIN class_meanings = Range(class_names)
        /\ \A c \in Range(class_names) :
             /\ EntriesOf[c] = 1
             /\ Len(class_meanings[c]) > 0

\* The tables while requests are served.
C6_Witness ==
    /\ main = "serving"
    /\ \E r \in Decodable : Answered(r)
    /\ \E r \in Undecodable : Answered(r)

\* C7 as amended: while the server serves, no request changes the processor,
\* the configuration, the weights, the Label Table or the Description Table;
\* the one part of the Model Context a request changes is the device of the
\* model, which line 36 of a POST /predict whose file decoded moves from the
\* CPU to the accelerator when one is available.
C7_OnlyDeviceOfModelChanges ==
    [][main = "serving" =>
        /\ UNCHANGED <<processor, config, weights, class_names, class_meanings>>
        /\ model_device' # model_device =>
             /\ model_device = "cpu"
             /\ model_device' = "cuda"
             /\ cuda
             /\ \E r \in Decodable : pc[r] = "line36" /\ pc'[r] = "line37"]_vars

\* A request was answered and the model is on the accelerator.
C7_Witness ==
    /\ main = "serving"
    /\ model_device = "cuda"
    /\ \E r \in Decodable : Answered(r) /\ response[r].status = 200
    /\ \E r \in Undecodable : Answered(r)
    /\ \E r \in Reqs : request[r].route = "GET /" /\ Answered(r)

\* C7 as claimed: while the server serves, no request changes any part of the
\* Model Context.
C7_ContextIsReadOnly == [][main = "serving" => UNCHANGED context]_vars

\* C8 as amended: when a fetch of the checkpoint fails, startup aborts, the
\* server never listens and no request is handled; a request is only handled
\* once processor, configuration, model and tables are loaded; and a checkpoint
\* whose classifier head has another size than 6 does not abort startup.
C8_FetchFailureAborts ==
    /\ hub.fetch_fails # "never" =>
         /\ main \in {"line17", "line18", "line19", "aborted"}
         /\ \A r \in Reqs : pc[r] = "idle" /\ response[r] = NoResponse
    /\ (main = "serving" \/ \E r \in Reqs : pc[r] # "idle") =>
         /\ hub.fetch_fails = "never"
         /\ processor
         /\ config = num_labels
         /\ weights \in Classifiers
         /\ model_device # "none"
         /\ class_names = class_names_literal
         /\ class_meanings = class_meanings_dict
    /\ hub.fetch_fails = "never" => main # "aborted"

\* A checkpoint with a head of another size is served.
C8_Witness ==
    /\ hub.head_labels # num_labels
    /\ main = "serving"
    /\ \E r \in Decodable : Answered(r) /\ response[r].status = 200

\* C8 as claimed: when a fetch fails or the head of the checkpoint has another
\* size than 6, the server never listens and no request is handled.
C8_IncompatibleCheckpointAborts ==
    (hub.fetch_fails # "never" \/ hub.head_labels # 6) =>
        /\ main # "serving"
        /\ \A r \in Reqs : pc[r] = "idle" /\ response[r] = NoResponse

\* C9: under every interleaving of the handlers, the response of a POST
\* /predict is the one predict gives for the bytes of that request alone.
C9_ResponseIsForOwnBytes ==
    \A r \in Posts : Answered(r) => response[r] = PredictAlone(request[r].file)

\* Three requests in flight at once, with different files, one of them
\* answered, one inside predict_image and one suspended at its read.
C9_Witness ==
    \E r, o, q \in Posts :
        /\ Answered(r) /\ r \in Decodable
        /\ pc[o] = "line59" /\ o \in Decodable
        /\ pc[q] = "line32" /\ running # q
        /\ request[r].file # request[o].file
        /\ request[q].file # request[o].file
        /\ PredictAlone(request[r].file) # PredictAlone(request[o].file)

\* C10: a handler that is inside predict_image, or back from it, holds the
\* event loop: a handler is suspended only before its first statement or at the
\* read of line 57, at most one handler is inside predict_image, and at the
\* forward pass the model and the inputs are on the device the call chose.
C10_PredictImageRunsUnsuspended ==
    /\ \A r \in Reqs :
         /\ pc[r] \in InPredictImage \cup {"line59"} => running = r
         /\ running # r => pc[r] \in {"idle", "line53", "line57", "line32", "done"}
         /\ pc[r] = "line40" =>
              /\ frame[r].device = torch_device(cuda)
              /\ model_device = frame[r].device
              /\ frame[r].inputs.device = frame[r].device
    /\ Cardinality({r \in Reqs : pc[r] \in InPredictImage}) <= 1

\* A handler is at the forward pass on the accelerator while another is
\* suspended at its read and a third has not started.
C10_Witness ==
    \E r, o, q \in Posts :
        /\ pc[r] = "line40" /\ cuda
        /\ pc[o] = "line32"
        /\ pc[q] = "line57"

====
